---- MODULE Spec2Model ----
(***************************************************************************)
(* A model of the EduGen retrieval-augmented exam pipeline:                *)
(*   src/rag_pipeline.py   RAGPipeline._extract_json_payload,              *)
(*                         RAGPipeline._normalize_exam_payload,            *)
(*                         RAGPipeline.query, RAGPipeline.grade_submission *)
(*   src/rag_pipeline2.py  RAGPipeline.query (the Z.ai variant)            *)
(*   src/rag_pipeline.py   RAGPipeline.__init__ (index build, load, save)  *)
(*   src/app.py            the Auto-Grade handler and its score extraction,*)
(*                         the session bootstrap, the Save Exam handler,   *)
(*                         the student exam view and its submit handlers   *)
(*                                                                         *)
(* Text is a sequence of one-character strings, so that strip(), the       *)
(* regular expressions and the JSON decoder are computed on characters.    *)
(* A Python/JSON value is a record [k |-> kind, v |-> value].              *)
(***************************************************************************)
EXTENDS Integers, Sequences, FiniteSets, TLC

VARIABLES
    normIn,     \* _normalize_exam_payload: its arguments (payload, topic, difficulty)
    normOut,    \* _normalize_exam_payload: its outcome, or NotRun
    exIn,       \* _extract_json_payload: the bare text and the fence put around it
    exOut,      \* _extract_json_payload: its outcomes on the bare and the fenced text
    qCall,      \* query: the call in progress (mode, retrieved chunks, model reply)
    qAttempts,  \* query: completion requests sent during the call
    qResult,    \* query: what the call returned, or NotRun
    subs,       \* the submissions table: id -> (ai_feedback, numerical_score)
    gradeLog,   \* Auto-Grade: what the last handler run did
    fs,         \* the file system: the listing of the pdfs folder and the faiss_index folder
    boot,       \* session -> how far RAGPipeline.__init__ of that session has run
    exams,      \* the exams table: the rows Save Exam inserted
    view,       \* the student exam view: what the last rendering showed
    rows,       \* the submissions table as the student view sees it: (exam, student, answers) rows
    stu,        \* student session -> how far its script run has got
    inst,       \* instructor session -> how far its Grade Submissions script run has got
    oauth       \* the OAuth settings of the server, the session_state of each browser
                \* session, and the last callback handled

vars ==
    <<normIn, normOut, exIn, exOut, qCall, qAttempts, qResult, subs, gradeLog,
      fs, boot, exams, view, rows, stu, inst, oauth>>

NotRun == [k |-> "notrun", v |-> 0]

(***************************************************************************)
(* Python values                                                           *)
(***************************************************************************)
JNull == [k |-> "null", v |-> 0]
JBool(b) == [k |-> "bool", v |-> b]
JInt(n) == [k |-> "int", v |-> n]
\* a finite float, held in tenths: JFloat(15) is 1.5
JFloat(t) == [k |-> "float", v |-> t]
JNaN == [k |-> "nan", v |-> 0]
\* sign is 1 for Infinity and -1 for -Infinity
JInf(sign) == [k |-> "inf", v |-> sign]
JStr(s) == [k |-> "str", v |-> s]
JList(items) == [k |-> "list", v |-> items]
JObj(fields) == [k |-> "obj", v |-> fields]

IsDict(x) == x.k = "obj"

\* the keys a dict of the model may hold, in the order json.dumps and iteration
\* meet them (the order the exam schema of the prompt lists them)
KeyOrder ==
    <<"topic", "difficulty", "mcqs", "essays", "id", "question", "options",
      "correct_option_index", "explanation", "model_answer">>

KeyChars(key) ==
    CASE key = "topic" -> <<"t", "o", "p", "i", "c">>
      [] key = "difficulty" -> <<"d", "i", "f", "f", "i", "c", "u", "l", "t", "y">>
      [] key = "mcqs" -> <<"m", "c", "q", "s">>
      [] key = "essays" -> <<"e", "s", "s", "a", "y", "s">>
      [] key = "id" -> <<"i", "d">>
      [] key = "question" -> <<"q", "u", "e", "s", "t", "i", "o", "n">>
      [] key = "options" -> <<"o", "p", "t", "i", "o", "n", "s">>
      [] key = "correct_option_index" ->
            <<"c", "o", "r", "r", "e", "c", "t", "_", "o", "p", "t", "i", "o", "n",
              "_", "i", "n", "d", "e", "x">>
      [] key = "explanation" ->
            <<"e", "x", "p", "l", "a", "n", "a", "t", "i", "o", "n">>
      [] key = "model_answer" ->
            <<"m", "o", "d", "e", "l", "_", "a", "n", "s", "w", "e", "r">>

\* the keys of dict d, in order
DictKeys(d) == SelectSeq(KeyOrder, LAMBDA key : key \in DOMAIN d.v)

\* d.get(key, default)
Get(d, key, default) == IF key \in DOMAIN d.v THEN d.v[key] ELSE default

(***************************************************************************)
(* Text                                                                    *)
(***************************************************************************)
Whitespace == {" ", "\n", "\t"}
Digits == <<"0", "1", "2", "3", "4", "5", "6", "7", "8", "9">>
DigitSet == {Digits[i] : i \in 1..10}
DigitVal(c) == (CHOOSE i \in 1..10 : Digits[i] = c) - 1

RECURSIVE LStrip(_)
LStrip(s) == IF s # <<>> /\ Head(s) \in Whitespace THEN LStrip(Tail(s)) ELSE s

RECURSIVE RStrip(_)
RStrip(s) ==
    IF s # <<>> /\ s[Len(s)] \in Whitespace THEN RStrip(SubSeq(s, 1, Len(s) - 1)) ELSE s

\* str.strip()
Strip(s) == RStrip(LStrip(s))

\* s[i:] with i counted from 1
From(s, i) == SubSeq(s, i, Len(s))

\* s.startswith(p) at position i
StartsAt(s, i, p) == i + Len(p) - 1 <= Len(s) /\ SubSeq(s, i, i + Len(p) - 1) = p

RECURSIVE NatStr(_)
NatStr(n) == IF n < 10 THEN <<Digits[n + 1]>> ELSE NatStr(n \div 10) \o <<Digits[(n % 10) + 1]>>

\* str(n) of an int
IntStr(n) == IF n < 0 THEN <<"-">> \o NatStr(-n) ELSE NatStr(n)

RECURSIVE DigitsVal(_, _)
DigitsVal(s, acc) == IF s = <<>> THEN acc ELSE DigitsVal(Tail(s), 10 * acc + DigitVal(Head(s)))

AllDigits(s) == s # <<>> /\ \A i \in 1..Len(s) : s[i] \in DigitSet

\* an outcome: a returned value, or an exception with the text str(e) gives
Raised == [ok |-> FALSE, val |-> <<>>]
RaisedMsg(msg) == [ok |-> FALSE, val |-> msg]
Returned(x) == [ok |-> TRUE, val |-> x]

\* int(s) of a str: surrounding whitespace and one sign are accepted
IntOfText(s) ==
    LET t == Strip(s)
        signed == t # <<>> /\ Head(t) \in {"-", "+"}
        body == IF signed THEN Tail(t) ELSE t
    IN  IF AllDigits(body)
        THEN Returned(IF signed /\ Head(t) = "-" THEN -DigitsVal(body, 0) ELSE DigitsVal(body, 0))
        ELSE Raised

\* int(x): truncation toward zero of a float, ValueError/OverflowError/TypeError otherwise
PyInt(x) ==
    CASE x.k = "int" -> Returned(x.v)
      [] x.k = "bool" -> Returned(IF x.v THEN 1 ELSE 0)
      [] x.k = "float" -> Returned(IF x.v < 0 THEN -((-x.v) \div 10) ELSE x.v \div 10)
      [] x.k = "str" -> IntOfText(x.v)
      [] OTHER -> Raised

RECURSIVE JoinRepr(_, _)
RECURSIVE JoinItems(_, _, _)
RECURSIVE PyRepr(_)
\* repr(x); a str is quoted with ' (the texts of the model hold no quote and no backslash)
PyRepr(x) ==
    CASE x.k = "null" -> <<"N", "o", "n", "e">>
      [] x.k = "bool" -> IF x.v THEN <<"T", "r", "u", "e">> ELSE <<"F", "a", "l", "s", "e">>
      [] x.k = "int" -> IntStr(x.v)
      [] x.k = "float" ->
            (IF x.v < 0 THEN <<"-">> ELSE <<>>)
            \o NatStr((IF x.v < 0 THEN -x.v ELSE x.v) \div 10) \o <<".">>
            \o NatStr((IF x.v < 0 THEN -x.v ELSE x.v) % 10)
      [] x.k = "nan" -> <<"n", "a", "n">>
      [] x.k = "inf" -> IF x.v < 0 THEN <<"-", "i", "n", "f">> ELSE <<"i", "n", "f">>
      [] x.k = "str" -> <<"'">> \o x.v \o <<"'">>
      [] x.k = "list" -> <<"[">> \o JoinRepr(x.v, TRUE) \o <<"]">>
      [] x.k = "obj" -> <<"{">> \o JoinItems(x, DictKeys(x), TRUE) \o <<"}">>
JoinRepr(items, first) ==
    IF items = <<>> THEN <<>>
    ELSE (IF first THEN <<>> ELSE <<",", " ">>) \o PyRepr(Head(items)) \o JoinRepr(Tail(items), FALSE)
JoinItems(d, keys, first) ==
    IF keys = <<>> THEN <<>>
    ELSE (IF first THEN <<>> ELSE <<",", " ">>)
         \o <<"'">> \o KeyChars(Head(keys)) \o <<"'", ":", " ">> \o PyRepr(d.v[Head(keys)])
         \o JoinItems(d, Tail(keys), FALSE)

\* str(x)
PyStr(x) == IF x.k = "str" THEN x.v ELSE PyRepr(x)

\* type(x).__name__
TypeName(x) ==
    CASE x.k = "null" -> <<"N", "o", "n", "e", "T", "y", "p", "e">>
      [] x.k = "bool" -> <<"b", "o", "o", "l">>
      [] x.k = "int" -> <<"i", "n", "t">>
      [] x.k \in {"float", "nan", "inf"} -> <<"f", "l", "o", "a", "t">>
      [] x.k = "str" -> <<"s", "t", "r">>
      [] x.k = "list" -> <<"l", "i", "s", "t">>
      [] x.k = "obj" -> <<"d", "i", "c", "t">>

\* str(e) of the TypeError a for loop over x raises
NotIterableMsg(x) ==
    <<"'">> \o TypeName(x) \o <<"'", " ", "o", "b", "j", "e", "c", "t", " ", "i", "s", " ", "n", "o", "t", " ", "i", "t", "e", "r", "a", "b", "l", "e">>

\* iter(x): the items a for loop meets, or TypeError
Iter(x) ==
    CASE x.k = "list" -> Returned(x.v)
      [] x.k = "str" -> Returned([i \in 1..Len(x.v) |-> JStr(<<x.v[i]>>)])
      [] x.k = "obj" -> Returned([i \in 1..Len(DictKeys(x)) |-> JStr(KeyChars(DictKeys(x)[i]))])
      [] OTHER -> RaisedMsg(NotIterableMsg(x))

Min(a, b) == IF a < b THEN a ELSE b
Max(a, b) == IF a > b THEN a ELSE b

(***************************************************************************)
(* RAGPipeline._normalize_exam_payload                                     *)
(***************************************************************************)
EmptyStr == JStr(<<>>)
EmptyList == JList(<<>>)

\* [str(opt).strip() for opt in items if str(opt).strip()]
RECURSIVE NonEmptyStripped(_)
NonEmptyStripped(items) ==
    IF items = <<>> THEN <<>>
    ELSE LET s == Strip(PyStr(Head(items)))
         IN  (IF s # <<>> THEN <<JStr(s)>> ELSE <<>>) \o NonEmptyStripped(Tail(items))

\* the options comprehension of one MCQ entry; TypeError when options is not iterable
OptionsOf(q) ==
    LET it == Iter(Get(q, "options", EmptyList))
    IN  IF it.ok THEN Returned(NonEmptyStripped(it.val)) ELSE it

RejectedBelowOne(question, options) == question = <<>> \/ Len(options) < 1

\* if not question or len(options) < 2: continue
Rejected(question, options) == question = <<>> \/ Len(options) < 2

\* try: idx = int(idx) / except Exception: idx = 0
CoerceIndex(idx) == LET r == PyInt(idx) IN IF r.ok THEN r.val ELSE 0

ClampIndexNoFloor(idx, n) == Min(idx, n - 1)

\* idx = max(0, min(idx, len(options) - 1))
ClampIndex(idx, n) == Max(0, Min(idx, n - 1))

\* f"MCQ-{i}", f"ESSAY-{i}"
McqIdZeroBased(i) == JStr(<<"M", "C", "Q", "-">> \o IntStr(i - 1))
McqId(i) == JStr(<<"M", "C", "Q", "-">> \o IntStr(i))
EssayId(i) == JStr(<<"E", "S", "S", "A", "Y", "-">> \o IntStr(i))

Skip == [act |-> "skip", val |-> 0]
Fail(msg) == [act |-> "raise", val |-> msg]
Keep(x) == [act |-> "keep", val |-> x]

\* one turn of the MCQ loop, for the entry q at 1-based position i
NormMcq(q, i) ==
    IF ~IsDict(q) THEN Skip
    ELSE LET question == Strip(PyStr(Get(q, "question", EmptyStr)))
             opts == OptionsOf(q)
         IN  IF ~opts.ok THEN Fail(opts.val)
             ELSE IF Rejected(question, opts.val) THEN Skip
             ELSE Keep(JObj([id |-> JStr(PyStr(Get(q, "id", McqId(i)))),
                             question |-> JStr(question),
                             options |-> JList(opts.val),
                             correct_option_index |->
                                 JInt(ClampIndex(CoerceIndex(Get(q, "correct_option_index", JInt(0))),
                                                 Len(opts.val))),
                             explanation |-> JStr(Strip(PyStr(Get(q, "explanation", EmptyStr))))]))

\* one turn of the essay loop
NormEssay(q, i) ==
    IF ~IsDict(q) THEN Skip
    ELSE LET question == Strip(PyStr(Get(q, "question", EmptyStr)))
         IN  IF question = <<>> THEN Skip
             ELSE Keep(JObj([id |-> JStr(PyStr(Get(q, "id", EssayId(i)))),
                             question |-> JStr(question),
                             model_answer |-> JStr(Strip(PyStr(Get(q, "model_answer", EmptyStr))))]))

\* for i, q in enumerate(mcqs_in, start=1): ...
RECURSIVE McqLoop(_, _, _)
McqLoop(items, i, acc) ==
    IF i > Len(items) THEN Returned(acc)
    ELSE LET r == NormMcq(items[i], i)
         IN  IF r.act = "raise" THEN RaisedMsg(r.val)
             ELSE McqLoop(items, i + 1, IF r.act = "keep" THEN Append(acc, r.val) ELSE acc)

\* for i, q in enumerate(essays_in, start=1): ...
RECURSIVE EssayLoop(_, _, _)
EssayLoop(items, i, acc) ==
    IF i > Len(items) THEN Returned(acc)
    ELSE LET r == NormEssay(items[i], i)
         IN  EssayLoop(items, i + 1, IF r.act = "keep" THEN Append(acc, r.val) ELSE acc)

\* _normalize_exam_payload(payload, topic, difficulty): the exam dict, or an exception
Normalize(payload, topic, difficulty) ==
    LET mcqs_in == IF IsDict(payload) THEN Get(payload, "mcqs", EmptyList) ELSE EmptyList
        essays_in == IF IsDict(payload) THEN Get(payload, "essays", EmptyList) ELSE EmptyList
        mi == Iter(mcqs_in)
        ei == Iter(essays_in)
        mcqs == IF mi.ok THEN McqLoop(mi.val, 1, <<>>) ELSE mi
        essays == IF ei.ok THEN EssayLoop(ei.val, 1, <<>>) ELSE ei
    IN  IF ~mcqs.ok THEN mcqs
        ELSE IF ~essays.ok THEN essays
        ELSE Returned(JObj([
                topic |-> IF IsDict(payload)
                          THEN JStr(Strip(PyStr(Get(payload, "topic", JStr(topic)))))
                          ELSE JStr(topic),
                difficulty |-> IF IsDict(payload)
                               THEN JStr(Strip(PyStr(Get(payload, "difficulty", JStr(difficulty)))))
                               ELSE JStr(difficulty),
                mcqs |-> JList(mcqs.val),
                essays |-> JList(essays.val)]))

(***************************************************************************)
(* The payloads _normalize_exam_payload is applied to                      *)
(***************************************************************************)
\* the longest options list of a generated MCQ entry
MaxOpts == 4
\* the longest mcqs and essays list of a generated payload
MaxEntries == 2

Beginner == <<"B", "e", "g", "i", "n", "n", "e", "r">>
Expert == <<"E", "x", "p", "e", "r", "t">>
CallerTopic == <<"D", "N", "A">>

\* all sequences over S of length 0..n
SeqsUpTo(S, n) == UNION {[1..m -> S] : m \in 0..n}

\* a record holding the fields of r that are present (Absent marks a missing key)
Absent == [k |-> "absent", v |-> 0]
Entry(r) == JObj([key \in {x \in DOMAIN r : r[x].k # "absent"} |-> r[key]])

OptionVals == {JStr(<<"a">>), JStr(<<" ", "b", " ">>), JStr(<<" ">>)}
OptionLists == {JList(l) : l \in SeqsUpTo(OptionVals, MaxOpts)}
\* options that are absent, not a list, or a list holding values that are not strings
OddOptions ==
    {Absent, JNull, JInt(4), JBool(TRUE), JStr(<<"a", " ", "b">>),
     JList(<<JNull, JInt(7)>>), JList(<<JStr(<<"a">>), JNull>>),
     JObj([id |-> JInt(1), question |-> JInt(2)])}
IndexVals ==
    {Absent, JNull, JInt(-1), JInt(0), JInt(1), JInt(3), JInt(99), JFloat(15), JFloat(-5),
     JFloat(990), JNaN, JInf(1), JInf(-1), JBool(TRUE), JStr(<<"2">>), JStr(<<" ", "3", "\n">>),
     JStr(<<"-", "1">>), JStr(<<"x">>), JStr(<<"1", ".", "5">>), JStr(<<>>), JList(<<JInt(1)>>)}
QuestionVals ==
    {Absent, JNull, JStr(<<>>), JStr(<<" ", "\n">>), JStr(<<"Q">>), JStr(<<" ", "Q", " ">>), JInt(0)}
FourOptions == JList(<<JStr(<<"a">>), JStr(<<"b">>), JStr(<<"c">>), JStr(<<"d">>)>>)

\* single MCQ entries: every options value with every index, and every question
RichMcqs ==
    {Entry([question |-> JStr(<<"Q">>), options |-> o, correct_option_index |-> x]) :
        o \in OptionLists \cup OddOptions, x \in IndexVals}
    \cup {Entry([question |-> q, options |-> FourOptions, correct_option_index |-> x, id |-> i]) :
            q \in QuestionVals, x \in {Absent, JInt(99)}, i \in {Absent, JStr(<<"X">>), JInt(7), JNull}}

\* the entries the lists of several entries are made of
ListMcqs ==
    {Entry([question |-> JStr(<<"Q">>), options |-> FourOptions, correct_option_index |-> JInt(99)]),
     Entry([id |-> JStr(<<"K">>), question |-> JStr(<<"R">>),
            options |-> JList(<<JStr(<<"a">>), JStr(<<"b">>)>>), explanation |-> JStr(<<" ", "w">>)]),
     Entry([question |-> JStr(<<"Q">>), options |-> JList(<<JStr(<<"a">>)>>)]),
     Entry([question |-> JStr(<<" ">>), options |-> FourOptions]),
     Entry([question |-> JStr(<<"Q">>), options |-> JNull]),
     JStr(<<"Q">>)}
ListEssays ==
    {Entry([question |-> JStr(<<"E">>), model_answer |-> JStr(<<"m", " ">>)]),
     Entry([id |-> JInt(3), question |-> JStr(<<"F">>)]),
     Entry([question |-> JStr(<<>>), model_answer |-> JStr(<<"m">>)]),
     JNull}

\* mcqs, essays, topic or difficulty fields that are not what the schema asks for
OddFields == {JNull, JInt(5), JBool(FALSE), JStr(<<"Q", "a">>), JObj([id |-> JInt(1)])}

Payloads ==
    {Entry([mcqs |-> JList(<<m>>)]) : m \in RichMcqs}
    \cup {Entry([topic |-> JStr(<<" ", "R", "N", "A">>), difficulty |-> JStr(Expert),
                 mcqs |-> JList(ms), essays |-> JList(es)]) :
            ms \in SeqsUpTo(ListMcqs, MaxEntries), es \in SeqsUpTo(ListEssays, MaxEntries)}
    \cup {Entry([topic |-> t, difficulty |-> d, mcqs |-> m, essays |-> e]) :
            t \in {Absent, JNull, JInt(5)}, d \in {Absent, JStr(<<" ", "x">>)},
            m \in OddFields \cup {Absent, JList(<<FourOptions>>)},
            e \in OddFields \cup {Absent}}
    \cup {JNull, JInt(3), JStr(<<"Q">>), JList(<<>>),
          JList(<<Entry([mcqs |-> EmptyList])>>)}

NormIdle == normIn = NotRun /\ normOut = NotRun
ExIdle == exIn = NotRun /\ exOut = NotRun
QueryIdle == qCall = NotRun /\ qAttempts = 0 /\ qResult = NotRun
GradeIdle == subs = <<>> /\ gradeLog = NotRun /\ inst = NotRun
IndexIdle == fs = NotRun /\ boot = NotRun
ExamIdle == exams = <<>> /\ view = NotRun
SubmitIdle == rows = <<>> /\ stu = NotRun
OAuthIdle == oauth = NotRun

InitNormalize ==
    /\ normIn \in [payload : Payloads, topic : {CallerTopic}, difficulty : {Beginner, Expert}]
    /\ normOut = NotRun
    /\ ExIdle /\ QueryIdle /\ GradeIdle /\ IndexIdle /\ ExamIdle /\ SubmitIdle /\ OAuthIdle

\* one call of _normalize_exam_payload
DoNormalize ==
    /\ normOut = NotRun
    /\ normIn # NotRun
    /\ normOut' = Normalize(normIn.payload, normIn.topic, normIn.difficulty)
    /\ UNCHANGED <<normIn, exIn, exOut, qCall, qAttempts, qResult, subs, gradeLog, fs, boot, exams, view, rows, stu, inst, oauth>>

NextNormalize == DoNormalize

\* _normalize_exam_payload applied once to a payload of Payloads
SpecNormalize == InitNormalize /\ [][NextNormalize]_vars

(***************************************************************************)
(* json.loads, json.JSONDecoder.raw_decode and json.dumps, on characters.  *)
(* The texts of the model hold no exponent, at most one digit after a      *)
(* decimal point, no \b \f \r \u escape, and only the keys of KeyOrder.    *)
(***************************************************************************)
Quote == "\""
Backslash == "\\"

KeyOf(chars) == CHOOSE key \in {KeyOrder[i] : i \in 1..Len(KeyOrder)} : KeyChars(key) = chars

NoParse == [ok |-> FALSE, val |-> 0, end |-> 0]

\* an assignment to a local: e is computed once, and Rest is what follows with the local
\* holding its value
Bind(e, Rest(_)) == CHOOSE out \in {Rest(x) : x \in {e}} : TRUE
Parsed(x, j) == [ok |-> TRUE, val |-> x, end |-> j]

\* the first position at or after i that holds no JSON white space
RECURSIVE SkipWs(_, _)
SkipWs(s, i) == IF i <= Len(s) /\ s[i] \in Whitespace THEN SkipWs(s, i + 1) ELSE i

\* the end of the run of digits starting at i (i itself when there is none)
RECURSIVE DigitsEnd(_, _)
DigitsEnd(s, i) == IF i <= Len(s) /\ s[i] \in DigitSet THEN DigitsEnd(s, i + 1) ELSE i

\* a string body, from the character after the opening quote
RECURSIVE ScanString(_, _, _)
ScanString(s, i, acc) ==
    IF i > Len(s) THEN NoParse
    ELSE IF s[i] = Quote THEN Parsed(JStr(acc), i + 1)
    ELSE IF s[i] = Backslash
         THEN IF i + 1 > Len(s) THEN NoParse
              ELSE IF s[i + 1] \in {Quote, Backslash, "/"} THEN ScanString(s, i + 2, Append(acc, s[i + 1]))
              ELSE IF s[i + 1] = "n" THEN ScanString(s, i + 2, Append(acc, "\n"))
              ELSE IF s[i + 1] = "t" THEN ScanString(s, i + 2, Append(acc, "\t"))
              ELSE NoParse
    ELSE IF s[i] \in {"\n", "\t"} THEN NoParse
    ELSE ScanString(s, i + 1, Append(acc, s[i]))

\* a JSON number at i: an optional minus, 0 or a run of digits not led by 0, and an
\* optional point followed by digits
ScanNumber(s, i) ==
    LET neg == i <= Len(s) /\ s[i] = "-"
        d == IF neg THEN i + 1 ELSE i
        intEnd == IF d <= Len(s) /\ s[d] = "0" THEN d + 1 ELSE DigitsEnd(s, d)
        whole == DigitsVal(SubSeq(s, d, intEnd - 1), 0)
        frac == intEnd <= Len(s) /\ s[intEnd] = "." /\ DigitsEnd(s, intEnd + 1) > intEnd + 1
        tenths == 10 * whole + DigitVal(s[intEnd + 1])
    IN  IF intEnd = d THEN NoParse
        ELSE IF frac THEN Parsed(JFloat(IF neg THEN -tenths ELSE tenths), DigitsEnd(s, intEnd + 1))
        ELSE Parsed(JInt(IF neg THEN -whole ELSE whole), intEnd)

RECURSIVE ScanValue(_, _)
RECURSIVE ScanMembers(_, _, _)
RECURSIVE ScanItems(_, _, _)
\* scan_once: the value that starts at position i, and the position after it
ScanValue(s, i) ==
    IF i > Len(s) THEN NoParse
    ELSE IF s[i] = Quote THEN ScanString(s, i + 1, <<>>)
    ELSE IF s[i] = "{"
         THEN LET j == SkipWs(s, i + 1)
              IN  IF j <= Len(s) /\ s[j] = "}" THEN Parsed(JObj(<<>>), j + 1)
                  ELSE ScanMembers(s, j, <<>>)
    ELSE IF s[i] = "["
         THEN LET j == SkipWs(s, i + 1)
              IN  IF j <= Len(s) /\ s[j] = "]" THEN Parsed(JList(<<>>), j + 1)
                  ELSE ScanItems(s, j, <<>>)
    ELSE IF StartsAt(s, i, <<"n", "u", "l", "l">>) THEN Parsed(JNull, i + 4)
    ELSE IF StartsAt(s, i, <<"t", "r", "u", "e">>) THEN Parsed(JBool(TRUE), i + 4)
    ELSE IF StartsAt(s, i, <<"f", "a", "l", "s", "e">>) THEN Parsed(JBool(FALSE), i + 5)
    ELSE IF ScanNumber(s, i).ok THEN ScanNumber(s, i)
    ELSE IF StartsAt(s, i, <<"N", "a", "N">>) THEN Parsed(JNaN, i + 3)
    ELSE IF StartsAt(s, i, <<"I", "n", "f", "i", "n", "i", "t", "y">>) THEN Parsed(JInf(1), i + 8)
    ELSE IF StartsAt(s, i, <<"-", "I", "n", "f", "i", "n", "i", "t", "y">>) THEN Parsed(JInf(-1), i + 9)
    ELSE NoParse
\* one member of an object, from the quote of its key: the key, the value and the
\* position of the "," or "}" that follows
ScanMember(s, i) ==
    IF ~(i <= Len(s) /\ s[i] = Quote) THEN NoParse
    ELSE Bind(ScanString(s, i + 1, <<>>), LAMBDA key :
         LET colon == IF key.ok THEN SkipWs(s, key.end) ELSE 0
         IN  IF ~(key.ok /\ colon <= Len(s) /\ s[colon] = ":") THEN NoParse
             ELSE Bind(ScanValue(s, SkipWs(s, colon + 1)), LAMBDA val :
                  LET next == IF val.ok THEN SkipWs(s, val.end) ELSE 0
                  IN  IF ~val.ok \/ next > Len(s) THEN NoParse
                      ELSE [ok |-> TRUE, key |-> KeyOf(key.val.v), val |-> val.val, end |-> next]))
\* the members of an object, from the quote of the next key; a repeated key keeps the last
ScanMembers(s, i, acc) ==
    Bind(ScanMember(s, i), LAMBDA m :
        IF ~m.ok THEN NoParse
        ELSE IF s[m.end] = "}" THEN Parsed(JObj((m.key :> m.val) @@ acc), m.end + 1)
        ELSE IF s[m.end] = ","
             THEN ScanMembers(s, SkipWs(s, m.end + 1), (m.key :> m.val) @@ acc)
        ELSE NoParse)
\* the items of an array, from the start of the next item
ScanItems(s, i, acc) ==
    Bind(ScanValue(s, i), LAMBDA val :
        LET next == IF val.ok THEN SkipWs(s, val.end) ELSE 0
        IN  IF ~val.ok \/ next > Len(s) THEN NoParse
            ELSE IF s[next] = "]" THEN Parsed(JList(Append(acc, val.val)), next + 1)
            ELSE IF s[next] = "," THEN ScanItems(s, SkipWs(s, next + 1), Append(acc, val.val))
            ELSE NoParse)

\* JSONDecoder.raw_decode(s): the value at the start of s; what follows it is ignored
RawDecode(text) ==
    Bind(text, LAMBDA s :
    Bind(ScanValue(s, 1), LAMBDA r : IF r.ok THEN Returned(r.val) ELSE Raised))

\* json.loads(s): white space, one value, white space, and nothing else
Loads(text) ==
    Bind(text, LAMBDA s :
    Bind(ScanValue(s, SkipWs(s, 1)), LAMBDA r :
        IF r.ok /\ SkipWs(s, r.end) > Len(s) THEN Returned(r.val) ELSE Raised))

\* the body of a JSON string under ensure_ascii=True
RECURSIVE Escaped(_)
Escaped(s) ==
    IF s = <<>> THEN <<>>
    ELSE (CASE Head(s) = Quote -> <<Backslash, Quote>>
            [] Head(s) = Backslash -> <<Backslash, Backslash>>
            [] Head(s) = "\n" -> <<Backslash, "n">>
            [] Head(s) = "\t" -> <<Backslash, "t">>
            [] OTHER -> <<Head(s)>>) \o Escaped(Tail(s))

RECURSIVE Dumps(_)
RECURSIVE DumpItems(_, _)
RECURSIVE DumpMembers(_, _, _)
\* json.dumps(x, ensure_ascii=True), with the default ", " and ": " separators
Dumps(x) ==
    CASE x.k = "null" -> <<"n", "u", "l", "l">>
      [] x.k = "bool" -> IF x.v THEN <<"t", "r", "u", "e">> ELSE <<"f", "a", "l", "s", "e">>
      [] x.k = "int" -> IntStr(x.v)
      [] x.k = "float" -> PyRepr(x)
      [] x.k = "nan" -> <<"N", "a", "N">>
      [] x.k = "inf" -> (IF x.v < 0 THEN <<"-">> ELSE <<>>) \o <<"I", "n", "f", "i", "n", "i", "t", "y">>
      [] x.k = "str" -> <<Quote>> \o Escaped(x.v) \o <<Quote>>
      [] x.k = "list" -> <<"[">> \o DumpItems(x.v, TRUE) \o <<"]">>
      [] x.k = "obj" -> <<"{">> \o DumpMembers(x, DictKeys(x), TRUE) \o <<"}">>
DumpItems(items, first) ==
    IF items = <<>> THEN <<>>
    ELSE (IF first THEN <<>> ELSE <<",", " ">>) \o Dumps(Head(items)) \o DumpItems(Tail(items), FALSE)
DumpMembers(d, keys, first) ==
    IF keys = <<>> THEN <<>>
    ELSE (IF first THEN <<>> ELSE <<",", " ">>)
         \o <<Quote>> \o KeyChars(Head(keys)) \o <<Quote, ":", " ">> \o Dumps(d.v[Head(keys)])
         \o DumpMembers(d, Tail(keys), FALSE)

(***************************************************************************)
(* RAGPipeline._extract_json_payload                                       *)
(***************************************************************************)
\* the backtick character (a TLA+ string cannot hold it, so it is spelled out)
Backtick == "backtick"
Fence == <<Backtick, Backtick, Backtick>>

\* raise ValueError("Empty response"), raise ValueError("Could not parse JSON payload")
EmptyResponse == <<"E", "m", "p", "t", "y", " ", "r", "e", "s", "p", "o", "n", "s", "e">>
CouldNotParse ==
    <<"C", "o", "u", "l", "d", " ", "n", "o", "t", " ", "p", "a", "r", "s", "e", " ", "J", "S", "O", "N", " ", "p", "a", "y", "l", "o", "a", "d">>

\* the end of the run of characters of S starting at i
RECURSIVE RunEnd(_, _, _)
RunEnd(s, i, S) == IF i <= Len(s) /\ s[i] \in S THEN RunEnd(s, i + 1, S) ELSE i

\* the start of the run of characters of S ending at i
RECURSIVE RunStart(_, _, _)
RunStart(s, i, S) == IF i >= 1 /\ s[i] \in S THEN RunStart(s, i - 1, S) ELSE i

\* str.lower() of one character, as re.IGNORECASE compares (the letters of the texts)
Lower(c) ==
    CASE c = "J" -> "j" [] c = "S" -> "s" [] c = "O" -> "o" [] c = "N" -> "n"
      [] c = "C" -> "c" [] c = "R" -> "r" [] c = "E" -> "e" [] c = "D" -> "d"
      [] OTHER -> c
LowerAll(s) == [i \in 1..Len(s) |-> Lower(s[i])]

\* the first re.sub, case-insensitive and anchored at the start: the pattern is
\* three backticks, an optional "json", a backslash character and any number of "s"
SubFenceOpen(s) ==
    LET afterTag == IF StartsAt(LowerAll(s), 4, <<"j", "s", "o", "n">>) THEN 8 ELSE 4
        match(p) == StartsAt(s, 1, Fence) /\ p <= Len(s) /\ s[p] = Backslash
    IN  IF match(afterTag) THEN From(s, RunEnd(s, afterTag + 1, {"s", "S"}))
        ELSE IF match(4) THEN From(s, RunEnd(s, 5, {"s", "S"}))
        ELSE s

\* the second re.sub, anchored at the end: a backslash character, any number of "s" and
\* three backticks at the end of the text
SubFenceClose(s) ==
    LET n == Len(s)
        b == IF n >= 3 /\ StartsAt(s, n - 2, Fence) THEN RunStart(s, n - 3, {"s"}) ELSE 0
    IN  IF b >= 1 /\ s[b] = Backslash THEN SubSeq(s, 1, b - 1) ELSE s

\* a scan that gives up after the first character
ScanForObjectAtStartOnly(s, i) ==
    Bind(IF s # <<>> /\ s[1] = "{" THEN RawDecode(s) ELSE Raised, LAMBDA r :
        IF r.ok THEN r ELSE RaisedMsg(CouldNotParse))

\* for i, ch in enumerate(candidate): if ch == "{": try raw_decode(candidate[i:])
\* the first position holding "{" whose raw_decode succeeds gives the result
ScanForObject(s, i) ==
    Bind({j \in i..Len(s) : s[j] = "{" /\ RawDecode(From(s, j)).ok}, LAMBDA hits :
        IF hits = {} THEN RaisedMsg(CouldNotParse)
        ELSE RawDecode(From(s, CHOOSE j \in hits : \A k \in hits : j <= k)))

\* _extract_json_payload(text): the decoded payload, or ValueError
ExtractJson(text) ==
    Bind(Strip(text), LAMBDA stripped :
    IF stripped = <<>> THEN RaisedMsg(EmptyResponse)
    ELSE Bind(IF StartsAt(stripped, 1, Fence) THEN SubFenceClose(SubFenceOpen(stripped))
              ELSE stripped, LAMBDA candidate :
         Bind(Loads(candidate), LAMBDA whole :
         IF whole.ok THEN whole ELSE ScanForObject(candidate, 1))))

(***************************************************************************)
(* The texts _extract_json_payload is applied to                           *)
(***************************************************************************)
\* an object, as json.dumps writes it
TextObject == <<"{", Quote, "i", "d", Quote, ":", " ", "1", "}">>
\* the exam of the second example of the testable properties
TextExam == <<"{", Quote, "t", "o", "p", "i", "c", Quote, ":", " ", Quote, "x", Quote, ",",
    " ", Quote, "m", "c", "q", "s", Quote, ":", " ", "[", "]", "}">>
\* an object inside white space
TextPadded == <<"\n", " ", "{", Quote, "i", "d", Quote, ":", " ", "{", Quote, "i", "d", Quote,
    ":", " ", "2", "}", "}", " ", "\n">>
\* an object written without spaces
TextCompact == <<"{", Quote, "i", "d", Quote, ":", "1", ",", Quote, "m", "c", "q", "s", Quote,
    ":", "[", "t", "r", "u", "e", ",", "n", "u", "l", "l", "]", "}">>
\* the empty object
TextEmptyObject == <<"{", "}">>
\* an object holding a brace inside a string
TextBraceInString == <<"{", Quote, "i", "d", Quote, ":", " ", Quote, "{", Quote, "}">>
\* an object that repeats a key
TextRepeatedKey == <<"{", Quote, "i", "d", Quote, ":", " ", "1", ".", "5", ",", " ", Quote,
    "i", "d", Quote, ":", " ", "2", "}">>
\* an array
TextArray == <<"[", "1", ",", " ", "2", "]">>
\* an array holding an object
TextArrayOfObject == <<"[", "{", Quote, "i", "d", Quote, ":", " ", "1", "}", "]">>
\* a number
TextNumber == <<"4", "2">>
\* null
TextNull == <<"n", "u", "l", "l">>
\* NaN, which json.loads accepts
TextNaN == <<"N", "a", "N">>
\* a JSON string holding a brace
TextString == <<Quote, "{", Quote>>
\* prose, then the exam
TextProseThenExam == <<"H", "e", "r", "e", " ", "i", "s", " ", "y", "o", "u", "r", " ", "e",
    "x", "a", "m", ":", " ", "{", Quote, "t", "o", "p", "i", "c", Quote, ":", " ", Quote, "x",
    Quote, ",", " ", Quote, "m", "c", "q", "s", Quote, ":", " ", "[", "]", "}">>
\* prose holding braces, then an object, then prose
TextBracesInProse == <<"x", " ", "{", "y", "}", " ", "{", Quote, "i", "d", Quote, ":", " ",
    "{", Quote, "i", "d", Quote, ":", " ", "1", "}", "}", " ", "z">>
\* an object that is never closed, around one that is
TextUnclosed == <<"{", Quote, "i", "d", Quote, ":", " ", "{", Quote, "i", "d", Quote, ":", " ",
    "1", "}", " ", "o", "o", "p", "s">>
\* an array followed by an object
TextArrayThenObject == <<"[", "1", "]", " ", "{", Quote, "i", "d", Quote, ":", " ", "1", "}">>
\* an object followed by a brace
TextObjectThenBrace == <<"{", Quote, "i", "d", Quote, ":", " ", "1", "}", "{">>
\* an object holding an escape JSON does not know
TextBadEscape == <<"{", Quote, "i", "d", Quote, ":", " ", Quote, Backslash, "s", Quote, "}">>
\* prose only
TextNoJson == <<"n", "o", " ", "j", "s", "o", "n">>
\* the empty text
TextEmpty == <<>>
\* white space only
TextBlank == <<" ", "\n">>
BareTexts ==
    {TextObject, TextExam, TextPadded, TextCompact,
     TextEmptyObject, TextBraceInString, TextRepeatedKey, TextArray,
     TextArrayOfObject, TextNumber, TextNull, TextNaN,
     TextString, TextProseThenExam, TextBracesInProse, TextUnclosed,
     TextArrayThenObject, TextObjectThenBrace, TextBadEscape, TextNoJson,
     TextEmpty, TextBlank}
OpenPlain == <<Backtick, Backtick, Backtick>>
OpenJson == <<Backtick, Backtick, Backtick, "j", "s", "o", "n">>
OpenUpper == <<Backtick, Backtick, Backtick, "J", "S", "O", "N">>
OpenMixed == <<Backtick, Backtick, Backtick, "J", "s", "o", "n">>
OpenPlainLine == <<Backtick, Backtick, Backtick, "\n">>
OpenJsonLine == <<Backtick, Backtick, Backtick, "j", "s", "o", "n", "\n">>
OpenUpperLine == <<Backtick, Backtick, Backtick, "J", "S", "O", "N", "\n">>
\* the opening code-fence markers: three backticks or three backticks and "json" in
\* any letter case, with or without a line break after them
OpenFences == {OpenPlain, OpenJson, OpenUpper, OpenMixed, OpenPlainLine, OpenJsonLine, OpenUpperLine}
ClosePlain == <<Backtick, Backtick, Backtick>>
CloseLine == <<"\n", Backtick, Backtick, Backtick>>
\* the closing code-fence markers
CloseFences == {ClosePlain, CloseLine}
OpenBackslashS == <<Backtick, Backtick, Backtick, Backslash, "s">>
OpenJsonBackslashS == <<Backtick, Backtick, Backtick, "j", "s", "o", "n", Backslash, "s", "s">>
CloseBackslashS == <<Backslash, "s", Backtick, Backtick, Backtick>>
\* what the two patterns of _extract_json_payload do match: a backslash and "s" characters
OddOpens == {OpenBackslashS, OpenJsonBackslashS}
OddCloses == {CloseBackslashS}

ExInputs == [bare : BareTexts, open : OpenFences \cup OddOpens \cup {<<>>},
             close : CloseFences \cup OddCloses \cup {<<>>}]

InitExtract ==
    /\ exIn \in ExInputs
    /\ exOut = NotRun
    /\ NormIdle /\ QueryIdle /\ GradeIdle /\ IndexIdle /\ ExamIdle /\ SubmitIdle /\ OAuthIdle

\* _extract_json_payload applied to the bare text and to the same text inside the fence
DoExtract ==
    /\ exIn # NotRun
    /\ exOut = NotRun
    /\ exOut' = [bare |-> ExtractJson(exIn.bare),
                 fenced |-> ExtractJson(exIn.open \o exIn.bare \o exIn.close)]
    /\ UNCHANGED <<exIn, normIn, normOut, qCall, qAttempts, qResult, subs, gradeLog, fs, boot, exams, view, rows, stu, inst, oauth>>

NextExtract == DoExtract

\* _extract_json_payload applied once to a text of ExInputs, bare and fenced
SpecExtract == InitExtract /\ [][NextExtract]_vars

(***************************************************************************)
(* RAGPipeline.query (src/rag_pipeline.py and src/rag_pipeline2.py)        *)
(***************************************************************************)
\* f"Error calling AI: {str(e)}" and f"Error calling Z.ai: {str(e)}"
ErrorCallingAI ==
    <<"E", "r", "r", "o", "r", " ", "c", "a", "l", "l", "i", "n", "g", " ", "A", "I", ":", " ">>
ErrorCallingZai ==
    <<"E", "r", "r", "o", "r", " ", "c", "a", "l", "l", "i", "n", "g", " ", "Z", ".", "a", "i",
    ":", " ">>

\* the chunks of the index: page text is left out, metadata holds the source path
\* (its directories and its file name) or no source at all
IndexChunks ==
    {[source |-> <<"pdfs", "cells.pdf">>], [source |-> <<"pdfs", "dna.pdf">>], [source |-> <<>>]}

\* os.path.basename(d.metadata.get("source", "Unknown"))
SourceName(d) == IF d.source = <<>> THEN "Unknown" ELSE d.source[Len(d.source)]

\* sources = {os.path.basename(...) for d in docs}
SourcesOf(docs) == {SourceName(d) : d \in docs}

\* the completion requests one call of query sends: the try block holds one
\* chat.completions.create call and no loop
CompletionAttemptsWithRetry(reply) == IF reply.ok THEN 1 ELSE 2
CompletionAttempts(reply) == 1

\* the text rag_pipeline.query returns: the body of its try block, and its except clause
QueryText(mode, topic, difficulty, reply) ==
    IF ~reply.ok THEN ErrorCallingAI \o reply.val
    ELSE IF mode = "Instructor Mode"
         THEN Bind(ExtractJson(reply.val), LAMBDA payload :
              Bind(IF payload.ok THEN Normalize(payload.val, topic, difficulty) ELSE payload,
                   LAMBDA exam :
              IF exam.ok THEN Dumps(exam.val) ELSE ErrorCallingAI \o exam.val))
         ELSE reply.val

\* the text rag_pipeline2.query returns
QueryText2(reply) == IF reply.ok THEN reply.val ELSE ErrorCallingZai \o reply.val

\* str(e) of the errors the completion call raises: authentication, timeout, rate limit
ProviderErrors == {<<"4", "0", "1">>, <<"t", "i", "m", "e", "o", "u", "t">>, <<"4", "2", "9">>}

\* the model output of the end-to-end scenario: fenced JSON holding one valid MCQ, one
\* MCQ with a single option and one essay
ScenarioExam ==
    JObj([topic |-> JStr(<<"P">>), difficulty |-> JStr(Beginner),
          mcqs |-> JList(<<
              JObj([id |-> JStr(<<"M">>), question |-> JStr(<<"Q">>), options |-> FourOptions,
                    correct_option_index |-> JInt(99), explanation |-> JStr(<<"w">>)]),
              JObj([question |-> JStr(<<"R">>), options |-> JList(<<JStr(<<"a">>)>>)])>>),
          essays |-> JList(<<JObj([question |-> JStr(<<"E">>), model_answer |-> JStr(<<"m">>)])>>)])
TextScenario == OpenJsonLine \o Dumps(ScenarioExam) \o CloseLine
\* an exam whose mcqs is null, and one holding an MCQ whose options is null
TextNullMcqs == Dumps(JObj([topic |-> JStr(<<"P">>), mcqs |-> JNull]))
TextNullOptions ==
    Dumps(JObj([mcqs |-> JList(<<JObj([question |-> JStr(<<"Q">>), options |-> JNull])>>)]))

\* what the completion call gives: the text of the model, or an exception
Replies ==
    {Returned(t) : t \in BareTexts \cup {TextScenario, TextNullMcqs, TextNullOptions}}
    \cup {RaisedMsg(e) : e \in ProviderErrors}

QueryModes == {"Instructor Mode", "General"}

Init ==
    /\ qCall = NotRun /\ qAttempts = 0 /\ qResult = NotRun
    /\ NormIdle /\ ExIdle /\ GradeIdle /\ IndexIdle /\ ExamIdle /\ SubmitIdle /\ OAuthIdle

\* rag_pipeline.query(topic, mcq_count, essay_count, difficulty, mode), whole
Query ==
    \E mode \in QueryModes, docs \in SUBSET IndexChunks, reply \in Replies,
       difficulty \in {Beginner, Expert} :
        /\ qResult = NotRun
        /\ qCall' = [pipeline |-> "rag_pipeline", mode |-> mode, docs |-> docs, reply |-> reply,
                     topic |-> CallerTopic, difficulty |-> difficulty]
        /\ qAttempts' = CompletionAttempts(reply)
        /\ qResult' = [text |-> QueryText(mode, CallerTopic, difficulty, reply),
                       sources |-> SourcesOf(docs)]
        /\ UNCHANGED <<normIn, normOut, exIn, exOut, subs, gradeLog, fs, boot, exams, view, rows, stu, inst, oauth>>

\* rag_pipeline2.query(topic, mcq_count, essay_count, difficulty, mode), whole
Query2 ==
    \E mode \in QueryModes, docs \in SUBSET IndexChunks, reply \in Replies :
        /\ qResult = NotRun
        /\ qCall' = [pipeline |-> "rag_pipeline2", mode |-> mode, docs |-> docs, reply |-> reply,
                     topic |-> CallerTopic, difficulty |-> Beginner]
        /\ qAttempts' = CompletionAttempts(reply)
        /\ qResult' = [text |-> QueryText2(reply), sources |-> SourcesOf(docs)]
        /\ UNCHANGED <<normIn, normOut, exIn, exOut, subs, gradeLog, fs, boot, exams, view, rows, stu, inst, oauth>>

Next == Query \/ Query2

\* one call of query, of either pipeline: query keeps no state from call to call
Spec == Init /\ [][Next]_vars

(***************************************************************************)
(* RAGPipeline.grade_submission and the Auto-Grade handler (src/app.py)    *)
(***************************************************************************)
\* f"Grading Error: {str(e)}"
GradingError == <<"G", "r", "a", "d", "i", "n", "g", " ", "E", "r", "r", "o", "r", ":", " ">>

\* grade_submission(exam_content, student_answer): the text of the model, or the
\* error string of its except clause
GradeSubmission(reply) == IF reply.ok THEN reply.val ELSE GradingError \o reply.val

NoMatch == [found |-> FALSE, group |-> <<>>]
Match(g) == [found |-> TRUE, group |-> g]
Least(S) == CHOOSE i \in S : \A j \in S : i <= j

Slash100 == <<"/", "1", "0", "0">>
ScoreColon == <<"s", "c", "o", "r", "e", ":">>

\* re.search of the first pattern of the handler, whose regular expression reads: a
\* group of one backslash character and one or more "d", then /100
SearchSlash100(s) ==
    LET dEnd(i) == RunEnd(s, i + 1, {"d"})
        hits == {i \in 1..Len(s) :
                    s[i] = Backslash /\ dEnd(i) > i + 1 /\ StartsAt(s, dEnd(i), Slash100)}
    IN  IF hits = {} THEN NoMatch ELSE Match(SubSeq(s, Least(hits), dEnd(Least(hits)) - 1))

\* re.search of the second pattern, with re.I: Score:, a backslash character, any
\* number of "s", then a group of one backslash character and one or more "d"
SearchScore(s) ==
    LET sEnd(i) == RunEnd(s, i + 7, {"s", "S"})
        dEnd(i) == RunEnd(s, sEnd(i) + 1, {"d", "D"})
        hits == {i \in 1..Len(s) :
                    /\ StartsAt(LowerAll(s), i, ScoreColon)
                    /\ i + 6 <= Len(s) /\ s[i + 6] = Backslash
                    /\ sEnd(i) <= Len(s) /\ s[sEnd(i)] = Backslash
                    /\ dEnd(i) > sEnd(i) + 1}
    IN  IF hits = {} THEN NoMatch
        ELSE Match(SubSeq(s, sEnd(Least(hits)), dEnd(Least(hits)) - 1))

ScoreOfDefaultMinusOne(res) ==
    LET first == SearchSlash100(res)
        m == IF first.found THEN first ELSE SearchScore(res)
    IN  IF ~m.found THEN -1
        ELSE IF IntOfText(m.group).ok THEN IntOfText(m.group).val ELSE 0

\* the try block of the handler: val = int(score_match.group(1)) if score_match else 0,
\* and val = 0 on any exception
ScoreOf(res) ==
    LET first == SearchSlash100(res)
        m == IF first.found THEN first ELSE SearchScore(res)
    IN  IF ~m.found THEN 0
        ELSE IF IntOfText(m.group).ok THEN IntOfText(m.group).val ELSE 0

\* the submissions waiting in the Grade Submissions tab
NumSubs == 2
SubIds == 1..NumSubs

\* the grading text of the testable properties
GradeGoodWork ==
    <<"S", "c", "o", "r", "e", ":", " ", "8", "7", "/", "1", "0", "0", "\n", "G", "o", "o",
    "d", " ", "w", "o", "r", "k">>
\* a score above 100, with no Score: before it
GradeOver == <<"1", "5", "0", "/", "1", "0", "0">>
\* a text without any score
GradeNoScore == <<"N", "o", " ", "s", "c", "o", "r", "e", " ", "i", "n", "f", "o">>
\* the fallback form, in lower case
GradeLowerCase == <<"s", "c", "o", "r", "e", ":", " ", "9">>
\* a backslash and the letter d before /100
GradeBackslashD == <<"x", Backslash, "d", "d", "/", "1", "0", "0">>
\* Score:, a backslash with s, a backslash with d
GradeBackslashSD == <<"S", "C", "O", "R", "E", ":", Backslash, "s", "s", Backslash, "D", ".">>
\* the empty text
GradeEmpty == <<>>
GradeTexts ==
    {GradeGoodWork, GradeOver, GradeNoScore, GradeLowerCase,
     GradeBackslashD, GradeBackslashSD, GradeEmpty}

\* what the completion call of grade_submission gives
GradeReplies == {Returned(t) : t \in GradeTexts} \cup {RaisedMsg(<<"4", "2", "9">>)}

\* if feedback: ...  (None and the empty text are falsy)
Truthy(x) == ~(x.k = "null" \/ (x.k = "str" /\ x.v = <<>>))

InitGrade ==
    /\ subs = [s \in SubIds |-> [ai_feedback |-> JNull, numerical_score |-> JNull]]
    /\ gradeLog = NotRun /\ inst = NotRun
    /\ NormIdle /\ ExIdle /\ QueryIdle /\ IndexIdle /\ ExamIdle /\ SubmitIdle /\ OAuthIdle

\* the Auto-Grade button of submission s: shown while its feedback is empty; the
\* handler grades, extracts the score and updates the row
AutoGrade(s) ==
    \E reply \in GradeReplies :
        LET res == GradeSubmission(reply)
            val == ScoreOf(res)
        IN  /\ ~Truthy(subs[s].ai_feedback)
            /\ subs' = [subs EXCEPT ![s] = [ai_feedback |-> JStr(res), numerical_score |-> JInt(val)]]
            /\ gradeLog' = [sub |-> s, reply |-> reply, val |-> val]
            /\ UNCHANGED <<normIn, normOut, exIn, exOut, qCall, qAttempts, qResult, fs, boot, exams, view, rows, stu, inst, oauth>>

NextGrade == \E s \in SubIds : AutoGrade(s)

\* an instructor grading the submissions one after the other
SpecGrade == InitGrade /\ [][NextGrade]_vars

(***************************************************************************)
(* RAGPipeline.__init__ (src/rag_pipeline.py) and the session bootstrap    *)
(* (src/app.py): each end-user session constructs its own RAGPipeline.     *)
(***************************************************************************)
\* the sessions the server runs at the same time
NumSessions == 2
Sessions == 1..NumSessions

\* the files a pdfs folder may hold: the chunks the splitter cuts from a file that
\* loads, and whether PyPDFLoader.load() raises on it
FileA == [name |-> "a", ext |-> ".pdf", loads |-> TRUE, chunks |-> <<"a1">>]
FileB == [name |-> "B", ext |-> ".PDF", loads |-> TRUE, chunks |-> <<"B1", "B2">>]
FileCorrupt == [name |-> "c", ext |-> ".pdf", loads |-> FALSE, chunks |-> <<>>]
FileBlank == [name |-> "d", ext |-> ".pdf", loads |-> TRUE, chunks |-> <<>>]
FileNotes == [name |-> "n", ext |-> ".txt", loads |-> TRUE, chunks |-> <<"n1">>]

\* the pdfs folder: os.path.exists(pdf_folder) and what os.listdir(pdf_folder) gives
NoFolder == [exists |-> FALSE, files |-> <<>>]
Folder(listing) == [exists |-> TRUE, files |-> listing]
\* os.listdir(pdf_folder), in the order the file system gives
Listings ==
    {<<>>, <<FileCorrupt>>, <<FileNotes>>, <<FileBlank, FileCorrupt>>,
     <<FileA>>, <<FileB>>, <<FileCorrupt, FileA>>, <<FileA, FileCorrupt>>,
     <<FileA, FileCorrupt, FileB>>, <<FileNotes, FileB, FileBlank>>}
Corpora == {NoFolder} \cup {Folder(l) : l \in Listings}

\* file.lower().endswith(".pdf")
IsPdf(file) == file.ext \in {".pdf", ".PDF", ".Pdf"}

\* the for loop over os.listdir: docs.extend(loader.load()) for each PDF, a file whose
\* load raises is passed over; then splitter.split_documents(docs)
RECURSIVE ChunksOf(_)
ChunksOf(listing) ==
    IF listing = <<>> THEN <<>>
    ELSE (IF IsPdf(Head(listing)) /\ Head(listing).loads THEN Head(listing).chunks ELSE <<>>)
         \o ChunksOf(Tail(listing))

\* if chunks: from_documents and save_local, else: raise Exception("No PDF content ...")
AfterSplitAlwaysSave(chunks) == "built"
AfterSplit(chunks) == IF chunks # <<>> THEN "built" ELSE "failed"

\* if os.path.exists("faiss_index"): load_local, else: build
StartPathAlwaysBuild(index) == "list"
StartPath(index) == IF index.k # "absent" THEN "load" ELSE "list"

\* the faiss_index folder: absent, holding a whole index, or holding part of one
\* (save_local makes the folder, then writes index.faiss, then index.pkl)
NoIndex == [k |-> "absent", chunks |-> <<>>]
PartialIndex == [k |-> "partial", chunks |-> <<>>]
WholeIndex(chunks) == [k |-> "whole", chunks |-> chunks]

\* a session before "rag" is in its session_state
Fresh == [pc |-> "start", saw |-> "none", read |-> FALSE, chunks |-> <<>>, db |-> <<>>,
          wrote |-> FALSE, why |-> "none"]

InitIndex ==
    /\ fs \in [corpus : Corpora, index : {NoIndex}]
    /\ boot = [s \in Sessions |-> Fresh]
    /\ NormIdle /\ ExIdle /\ QueryIdle /\ GradeIdle /\ ExamIdle /\ SubmitIdle /\ OAuthIdle

IndexUnchanged ==
    UNCHANGED <<normIn, normOut, exIn, exOut, qCall, qAttempts, qResult, subs, gradeLog,
                exams, view, rows, stu, inst, oauth>>

\* if "rag" not in st.session_state: RAGPipeline("pdfs") starts; os.path.exists("faiss_index")
Start(s) ==
    /\ boot[s].pc = "start"
    /\ boot' = [boot EXCEPT ![s] = [Fresh EXCEPT
                    !.pc = StartPath(fs.index),
                    !.saw = IF fs.index.k # "absent" THEN "present" ELSE "absent"]]
    /\ UNCHANGED fs
    /\ IndexUnchanged

\* FAISS.load_local("faiss_index", ...) of a whole index
Load(s) ==
    /\ boot[s].pc = "load"
    /\ fs.index.k = "whole"
    /\ boot' = [boot EXCEPT ![s].pc = "ready", ![s].db = fs.index.chunks]
    /\ UNCHANGED fs
    /\ IndexUnchanged

\* FAISS.load_local of a folder that is gone or lacks a file: the exception leaves __init__
LoadFail(s) ==
    /\ boot[s].pc = "load"
    /\ fs.index.k # "whole"
    /\ boot' = [boot EXCEPT ![s].pc = "failed", ![s].why = "load"]
    /\ UNCHANGED fs
    /\ IndexUnchanged

\* os.makedirs when the folder is missing, the loop over os.listdir, the splitter, and
\* the test of chunks
Ingest(s) ==
    LET listing == fs.corpus.files
        chunks == ChunksOf(listing)
    IN  /\ boot[s].pc = "list"
        /\ fs' = [fs EXCEPT !.corpus = Folder(listing)]
        /\ boot' = [boot EXCEPT ![s].pc = AfterSplit(chunks), ![s].read = TRUE,
                                ![s].chunks = chunks,
                                ![s].db = IF AfterSplit(chunks) = "built" THEN chunks ELSE <<>>,
                                ![s].why = IF AfterSplit(chunks) = "built" THEN "none" ELSE "empty"]
        /\ IndexUnchanged

\* self.db.save_local("faiss_index") begins: the folder is made and written into
SaveBegin(s) ==
    /\ boot[s].pc = "built"
    /\ fs' = [fs EXCEPT !.index = PartialIndex]
    /\ boot' = [boot EXCEPT ![s].pc = "saving", ![s].wrote = TRUE]
    /\ IndexUnchanged

\* save_local returns: the folder holds the index of this session
SaveEnd(s) ==
    /\ boot[s].pc = "saving"
    /\ fs' = [fs EXCEPT !.index = WholeIndex(boot[s].db)]
    /\ boot' = [boot EXCEPT ![s].pc = "ready"]
    /\ IndexUnchanged

\* save_local raises (no space, no permission): nothing catches it, so it leaves __init__
\* and st.session_state.rag is not assigned
SaveFail(s) ==
    /\ boot[s].pc \in {"built", "saving"}
    /\ boot' = [boot EXCEPT ![s].pc = "failed", ![s].why = "save", ![s].db = <<>>]
    /\ UNCHANGED fs
    /\ IndexUnchanged

\* the next script run of a session whose construction failed, or a new session
Restart(s) ==
    /\ boot[s].pc \in {"failed", "ready"}
    /\ boot' = [boot EXCEPT ![s] = Fresh]
    /\ UNCHANGED fs
    /\ IndexUnchanged

\* the operator changes the pdfs folder
ChangeCorpus ==
    /\ \E c \in Corpora : c # fs.corpus /\ fs' = [fs EXCEPT !.corpus = c]
    /\ UNCHANGED boot
    /\ IndexUnchanged

\* the operator deletes the faiss_index folder
DeleteIndex ==
    /\ fs.index.k # "absent"
    /\ fs' = [fs EXCEPT !.index = NoIndex]
    /\ UNCHANGED boot
    /\ IndexUnchanged

NextIndex ==
    \/ \E s \in Sessions : Start(s)
    \/ \E s \in Sessions : Load(s)
    \/ \E s \in Sessions : LoadFail(s)
    \/ \E s \in Sessions : Ingest(s)
    \/ \E s \in Sessions : SaveBegin(s)
    \/ \E s \in Sessions : SaveEnd(s)
    \/ \E s \in Sessions : SaveFail(s)
    \/ \E s \in Sessions : Restart(s)
    \/ ChangeCorpus
    \/ DeleteIndex

\* the sessions of one server constructing their pipelines, the operator changing files
SpecIndex == InitIndex /\ [][NextIndex]_vars

(***************************************************************************)
(* The Save Exam handler and the student exam view (src/app.py)            *)
(***************************************************************************)
\* the truth value Python gives a value in "if x" and "x or y"
PyBool(x) ==
    CASE x.k = "null" -> FALSE
      [] x.k = "bool" -> x.v
      [] x.k \in {"int", "float"} -> x.v # 0
      [] x.k \in {"nan", "inf"} -> TRUE
      [] x.k \in {"str", "list"} -> x.v # <<>>
      [] x.k = "obj" -> DOMAIN x.v # {}

\* parse_json_blob(text): the dict the text holds, or None
ParseJsonBlob(text) ==
    IF text = <<>> THEN JNull
    ELSE Bind(Strip(text), LAMBDA stripped :
         Bind(IF StartsAt(stripped, 1, Fence) THEN SubFenceClose(SubFenceOpen(stripped))
              ELSE stripped, LAMBDA candidate :
         Bind(Loads(candidate), LAMBDA data :
         IF data.ok /\ IsDict(data.val) THEN data.val ELSE JNull)))

\* exam_data and (exam_data.get("mcqs") or exam_data.get("essays"))
StructuredMcqsOnly(exam_data) == PyBool(exam_data) /\ PyBool(Get(exam_data, "mcqs", JNull))
Structured(exam_data) ==
    PyBool(exam_data)
    /\ (PyBool(Get(exam_data, "mcqs", JNull)) \/ PyBool(Get(exam_data, "essays", JNull)))

\* stored_content: json.dumps(exam_data, ensure_ascii=True), or the text as it is
StoredContent(text) ==
    Bind(ParseJsonBlob(text), LAMBDA exam_data :
        IF Structured(exam_data) THEN Dumps(exam_data) ELSE text)

\* the form the student view gives for an exam not yet submitted
FormOf(exam_content) ==
    Bind(ParseJsonBlob(exam_content), LAMBDA exam_data :
        IF Structured(exam_data) THEN "structured" ELSE "legacy")

\* the exams one run of the model saves
MaxExams == 1

\* a model output holding essays and no MCQ
TextEssaysOnly ==
    Dumps(JObj([topic |-> JStr(<<"P">>),
                essays |-> JList(<<JObj([question |-> JStr(<<"E">>)])>>)]))
ExamReplies == Replies \cup {Returned(TextEssaysOnly)}

InitExam ==
    /\ exams = <<>>
    /\ view = NotRun
    /\ NormIdle /\ ExIdle /\ QueryIdle /\ GradeIdle /\ IndexIdle /\ SubmitIdle /\ OAuthIdle

ExamUnchanged ==
    UNCHANGED <<normIn, normOut, exIn, exOut, qCall, qAttempts, qResult, subs, gradeLog,
                fs, boot, rows, stu, inst, oauth>>

\* the Save Exam button: query in Instructor Mode, parse_json_blob, INSERT INTO exams
SaveExam ==
    \E reply \in ExamReplies, diff \in {Beginner, Expert} :
        LET text == QueryText("Instructor Mode", CallerTopic, diff, reply)
        IN  /\ Len(exams) < MaxExams
            /\ exams' = Append(exams, [topic |-> CallerTopic, difficulty |-> diff,
                                       content |-> StoredContent(text),
                                       reply |-> reply, text |-> text])
            /\ UNCHANGED view
            /\ ExamUnchanged

\* a student who has not submitted exam e chooses it: the structured form or the
\* legacy text area
StudentView(e) ==
    /\ e \in 1..Len(exams)
    /\ view' = [exam |-> e, form |-> FormOf(exams[e].content)]
    /\ UNCHANGED exams
    /\ ExamUnchanged

NextExam == SaveExam \/ \E e \in 1..MaxExams : StudentView(e)

\* an instructor saving exams and a student opening them
SpecExam == InitExam /\ [][NextExam]_vars

(***************************************************************************)
(* The student submit handlers (src/app.py), one script run per session    *)
(***************************************************************************)
Students == {"ana", "ben"}
ExamIds == {1, 2}
\* student_answers: the JSON of the structured form, or the text of the legacy area
AnswerTexts == {<<"{", "}">>, <<"4", "2">>}

\* SELECT student_answers, ai_feedback FROM submissions WHERE exam_id=%s AND student_id=%s
DoneRow(e, u) == \E i \in 1..Len(rows) : rows[i].exam_id = e /\ rows[i].student_id = u

InitSubmit ==
    /\ rows = <<>>
    /\ stu \in [Sessions -> [pc : {"idle"}, student : Students, exam : {0}]]
    /\ NormIdle /\ ExIdle /\ QueryIdle /\ GradeIdle /\ IndexIdle /\ ExamIdle /\ OAuthIdle

SubmitUnchanged ==
    UNCHANGED <<normIn, normOut, exIn, exOut, qCall, qAttempts, qResult, subs, gradeLog,
                fs, boot, exams, view, inst, oauth>>

\* a script run of session t reaches the already-submitted check for exam e: with a row
\* it shows "Already submitted", without one it renders the form
CheckDone(t, e) ==
    /\ stu[t].pc = "idle"
    /\ stu' = [stu EXCEPT ![t].pc = IF DoneRow(e, stu[t].student) THEN "idle" ELSE "form",
                          ![t].exam = IF DoneRow(e, stu[t].student) THEN 0 ELSE e]
    /\ UNCHANGED rows
    /\ SubmitUnchanged

\* the run was started by the submit button: INSERT INTO submissions, commit, st.rerun()
Submit(t) ==
    \E ans \in AnswerTexts :
        /\ stu[t].pc = "form"
        /\ rows' = Append(rows, [exam_id |-> stu[t].exam, student_id |-> stu[t].student,
                                 student_answers |-> ans])
        /\ stu' = [stu EXCEPT ![t].pc = "idle", ![t].exam = 0]
        /\ SubmitUnchanged

\* the run only rendered the form: no button was pressed
Leave(t) ==
    /\ stu[t].pc = "form"
    /\ stu' = [stu EXCEPT ![t].pc = "idle", ![t].exam = 0]
    /\ UNCHANGED rows
    /\ SubmitUnchanged

NextSubmit ==
    \/ \E t \in Sessions, e \in ExamIds : CheckDone(t, e)
    \/ \E t \in Sessions : Submit(t)
    \/ \E t \in Sessions : Leave(t)

\* student sessions (two of them may belong to one student) running their scripts
SpecSubmit == InitSubmit /\ [][NextSubmit]_vars

(***************************************************************************)
(* The Grade Submissions tab (src/app.py), one script run per session      *)
(***************************************************************************)
\* what grade_submission gives in the runs of several instructor sessions
RaceReplies ==
    {Returned(GradeGoodWork), Returned(GradeOver), Returned(GradeEmpty),
     RaisedMsg(<<"4", "2", "9">>)}

Waiting == [pc |-> "idle", open |-> {}, sub |-> 0, res |-> <<>>]

InitGradeRace ==
    /\ subs = [s \in SubIds |-> [ai_feedback |-> JNull, numerical_score |-> JNull]]
    /\ gradeLog = NotRun
    /\ inst = [i \in Sessions |-> Waiting]
    /\ NormIdle /\ ExIdle /\ QueryIdle /\ IndexIdle /\ ExamIdle /\ SubmitIdle /\ OAuthIdle

GradeRaceUnchanged ==
    UNCHANGED <<normIn, normOut, exIn, exOut, qCall, qAttempts, qResult, gradeLog,
                fs, boot, exams, view, rows, stu, oauth>>

\* the SELECT of the tab: the run keeps the feedback of each submission as fetched, and
\* shows the Auto-Grade button for those whose feedback is empty
Fetch(i) ==
    /\ inst[i].pc = "idle"
    /\ inst' = [inst EXCEPT ![i] = [Waiting EXCEPT
                    !.pc = "page",
                    !.open = {s \in SubIds : ~Truthy(subs[s].ai_feedback)}]]
    /\ UNCHANGED subs
    /\ GradeRaceUnchanged

\* the run was started by the Auto-Grade button of submission s:
\* res = st.session_state.rag.grade_submission(e_cont, s_ans)
CallModel(i, s) ==
    \E reply \in RaceReplies :
        /\ inst[i].pc = "page"
        /\ s \in inst[i].open
        /\ inst' = [inst EXCEPT ![i].pc = "called", ![i].sub = s,
                                ![i].res = GradeSubmission(reply)]
        /\ UNCHANGED subs
        /\ GradeRaceUnchanged

\* the score extraction, UPDATE submissions ... WHERE id = s_id, commit, st.rerun()
Update(i) ==
    /\ inst[i].pc = "called"
    /\ subs' = [subs EXCEPT ![inst[i].sub] =
                    [ai_feedback |-> JStr(inst[i].res),
                     numerical_score |-> JInt(ScoreOf(inst[i].res))]]
    /\ inst' = [inst EXCEPT ![i] = Waiting]
    /\ GradeRaceUnchanged

\* the run ends with no button pressed
EndRun(i) ==
    /\ inst[i].pc = "page"
    /\ inst' = [inst EXCEPT ![i] = Waiting]
    /\ UNCHANGED subs
    /\ GradeRaceUnchanged

NextGradeRace ==
    \/ \E i \in Sessions : Fetch(i)
    \/ \E i \in Sessions, s \in SubIds : CallModel(i, s)
    \/ \E i \in Sessions : Update(i)
    \/ \E i \in Sessions : EndRun(i)

\* instructor sessions grading the same submissions at the same time
SpecGradeRace == InitGradeRace /\ [][NextGradeRace]_vars

(***************************************************************************)
(* The OAuth login (src/app.py): ensure_oauth_state on the login page and  *)
(* handle_oauth_callback_if_present at the start of every script run       *)
(***************************************************************************)
\* the keys of get_oauth_providers()
Providers == {"google", "github", "facebook"}
\* the browser sessions, each with its own st.session_state
Browsers == {"b1", "b2"}
Roles == {"student", "instructor"}

\* GOOGLE_CLIENT_ID, GOOGLE_CLIENT_SECRET, ... of the environment ("" when unset)
Unset == [client_id |-> "", client_secret |-> ""]
Configured == [client_id |-> "id", client_secret |-> "secret"]
IdOnly == [client_id |-> "id", client_secret |-> ""]
Environments ==
    {[p \in Providers |-> Configured],
     [p \in Providers |-> IF p = "google" THEN Configured ELSE IF p = "github" THEN IdOnly ELSE Unset],
     [p \in Providers |-> Unset]}

\* cfg["client_id"] and cfg["client_secret"]
HasCredentials(cfg) == cfg.client_id # "" /\ cfg.client_secret # ""

\* secrets.token_urlsafe(24): a text no other session and no other provider gets
Token(b, p) == JStr(<<b, p>>)

\* st.session_state of a session after the bootstrap: no oauth_states entry (JNull
\* stands for a key the dict does not hold), not logged in
NewSession ==
    [states |-> [p \in Providers |-> JNull], roles |-> [p \in Providers |-> JNull],
     logged_in |-> FALSE, user |-> JNull]

\* ensure_oauth_state(provider, role) in the session of browser b
EnsureOauthState(sess, b, p, role) ==
    IF sess.states[p] = JNull
    THEN [sess EXCEPT !.states[p] = Token(b, p), !.roles[p] = JStr(role)]
    ELSE [sess EXCEPT !.roles[p] = JStr(role)]

\* the loop of the login page over google, github, facebook: build_authorize_url for
\* each provider that has credentials
RECURSIVE EnsureAll(_, _, _, _, _)
EnsureAll(sess, b, env, role, ps) ==
    IF ps = <<>> THEN sess
    ELSE EnsureAll(IF HasCredentials(env[Head(ps)])
                   THEN EnsureOauthState(sess, b, Head(ps), role) ELSE sess,
                   b, env, role, Tail(ps))

\* what exchange_code_for_token, get_oauth_profile and login_or_create_oauth_user
\* come to: an exception, the row of a known account, or a new account
TokenError == [k |-> "raise", existing |-> FALSE, username |-> "", role |-> ""]
KnownAccount == [k |-> "user", existing |-> TRUE, username |-> "ana", role |-> "instructor"]
NewAccount == [k |-> "user", existing |-> FALSE, username |-> "new", role |-> ""]
Outcomes == {TokenError, KnownAccount, NewAccount}

\* the row login_or_create_oauth_user returns: a new account takes fallback_role
UserRow(outcome, selected_role) ==
    [username |-> outcome.username,
     role |-> IF outcome.existing THEN outcome.role
              ELSE IF selected_role.k = "str" /\ selected_role.v \in Roles THEN selected_role.v
              ELSE "student"]

\* not (not expected_state or state != expected_state)
StateOkNoPresenceTest(expected_state, state) == state = expected_state
StateOk(expected_state, state) == Truthy(expected_state) /\ state = expected_state

\* handle_oauth_callback_if_present() with the query parameters provider, code ("" stands
\* for a parameter that is missing or empty) and state (JNull when missing): the
\* session_state after it
HandleCallback(sess, env, provider, code, state, outcome) ==
    IF provider = "" \/ code = "" THEN sess
    ELSE IF provider \notin Providers THEN sess
    ELSE IF ~StateOk(sess.states[provider], state) THEN sess
    ELSE IF ~HasCredentials(env[provider]) THEN sess
    ELSE IF outcome.k = "raise" THEN sess
    ELSE [sess EXCEPT
            !.logged_in = TRUE,
            !.user = JObj(UserRow(outcome,
                                  IF sess.roles[provider] = JNull THEN JStr("student")
                                  ELSE sess.roles[provider]))]

\* the query parameters a request may carry
ProviderParams == {"", "twitter", "google", "github"}
CodeParams == {"", "c"}
StateParams ==
    {JNull, Token("b1", "google"), Token("b2", "google"), Token("b1", "github")}

NoCallback == [browser |-> "", provider |-> "", code |-> "", state |-> JNull,
               outcome |-> TokenError, before |-> NewSession]

InitOAuth ==
    /\ oauth \in [env : Environments, session : {[b \in Browsers |-> NewSession]},
                  last : {NoCallback}]
    /\ NormIdle /\ ExIdle /\ QueryIdle /\ GradeIdle /\ IndexIdle /\ ExamIdle /\ SubmitIdle

OAuthUnchanged ==
    UNCHANGED <<normIn, normOut, exIn, exOut, qCall, qAttempts, qResult, subs, gradeLog,
                fs, boot, exams, view, rows, stu, inst>>

\* a script run of a session that is not logged in renders the login page
LoginPage(b) ==
    \E role \in Roles :
        /\ ~oauth.session[b].logged_in
        /\ oauth' = [oauth EXCEPT
                        !.session[b] = EnsureAll(oauth.session[b], b, oauth.env, role,
                                                 <<"google", "github", "facebook">>)]
        /\ OAuthUnchanged

\* a script run of session b started by a request with these query parameters
Callback(b) ==
    \E provider \in ProviderParams, code \in CodeParams, state \in StateParams,
       outcome \in Outcomes :
        /\ oauth' = [oauth EXCEPT
                        !.session[b] = HandleCallback(oauth.session[b], oauth.env, provider,
                                                      code, state, outcome),
                        !.last = [browser |-> b, provider |-> provider, code |-> code,
                                  state |-> state, outcome |-> outcome,
                                  before |-> oauth.session[b]]]
        /\ OAuthUnchanged

\* the Logout button of the sidebar
Logout(b) ==
    /\ oauth.session[b].logged_in
    /\ oauth' = [oauth EXCEPT !.session[b].logged_in = FALSE, !.session[b].user = JNull,
                              !.last = NoCallback]
    /\ OAuthUnchanged

NextOAuth ==
    \/ \E b \in Browsers : LoginPage(b)
    \/ \E b \in Browsers : Callback(b)
    \/ \E b \in Browsers : Logout(b)

\* two browser sessions and the requests that reach them
SpecOAuth == InitOAuth /\ [][NextOAuth]_vars

(***************************************************************************)
(* Claims about index construction                                         *)
(***************************************************************************)
\* a construction that has ended, with the pipeline assigned or with an exception
Ended(s) == boot[s].pc \in {"ready", "failed"}

\* C11: a construction whose ingestion gives zero chunks (folder missing, empty, or
\* nothing readable in it) fails, and it writes nothing: no index of zero chunks is
\* ever persisted, and a startup that finds no persisted index goes to the build
EmptyCorpusFailsAndLeavesNoIndex ==
    /\ \A s \in Sessions :
        /\ boot[s].read /\ boot[s].chunks = <<>> =>
              boot[s].pc = "failed" /\ boot[s].why = "empty" /\ ~boot[s].wrote
        /\ boot[s].saw = "absent" => boot[s].pc # "load" /\ (boot[s].pc = "ready" => boot[s].read)
    /\ fs.index.k = "whole" => fs.index.chunks # <<>>
EmptyCorpusFailsWitness ==
    \E s \in Sessions :
        /\ boot[s].pc = "failed" /\ boot[s].why = "empty"
        /\ fs.corpus = Folder(<<FileBlank, FileCorrupt>>)
        /\ fs.index = NoIndex

\* C12: a build that read at least one chunk ends with the pipeline constructed, its
\* index holding the chunks of the documents that loaded
UnreadableSkippedBuildSucceeds ==
    \A s \in Sessions :
        Ended(s) /\ boot[s].read /\ boot[s].chunks # <<>> =>
            boot[s].pc = "ready" /\ boot[s].db = boot[s].chunks

\* C13: a construction whose save_local failed still ends with the pipeline
\* constructed and its in-memory index usable
PersistFailureNonFatal ==
    \A s \in Sessions : boot[s].why = "save" => boot[s].pc = "ready" /\ boot[s].db # <<>>

\* C14: a startup that finds a persisted index takes the load and never lists the
\* pdfs folder, whatever the folder holds by then
PersistedIndexShortCircuits ==
    \A s \in Sessions :
        boot[s].saw = "present" =>
            /\ ~boot[s].read
            /\ boot[s].pc \in {"load", "ready", "failed"}
            /\ boot[s].pc = "failed" => boot[s].why = "load"
            /\ ~boot[s].wrote
PersistedIndexShortCircuitsWitness ==
    \E s \in Sessions :
        /\ boot[s].saw = "present" /\ boot[s].pc = "ready"
        /\ boot[s].db # <<>>
        /\ boot[s].db # ChunksOf(fs.corpus.files)

\* C15: at most one session is ever building, and no session is inside save_local
\* while another session is inside save_local or loading the persisted index
IndexBuiltOnceNoConcurrentWriter ==
    /\ Cardinality({s \in Sessions : boot[s].pc \in {"list", "built", "saving"}}) <= 1
    /\ \A s, t \in Sessions :
        s # t /\ boot[s].pc = "saving" => boot[t].pc \notin {"saving", "load"}

(***************************************************************************)
(* Claims about Save Exam and the student exam view                        *)
(***************************************************************************)
\* what query returned for row r is an inline error string
IsErrorText(text) == StartsAt(text, 1, ErrorCallingAI)

\* C16: no exam row holds the inline error string of a failed generation as content
SaveExamDoesNotStoreError ==
    \A e \in 1..Len(exams) : ~IsErrorText(exams[e].content)

\* the object the text of query decodes to has an MCQ or an essay
HasQuestions(text) ==
    LET r == Loads(text)
        nonEmptyList(x) == x.k = "list" /\ Len(x.v) >= 1
    IN  /\ r.ok /\ r.val.k = "obj"
        /\ \/ nonEmptyList(Get(r.val, "mcqs", JNull))
           \/ nonEmptyList(Get(r.val, "essays", JNull))

\* C17: an exam whose text is no object or holds no MCQ and no essay is stored as
\* returned and shown as legacy text; an exam with an MCQ or an essay is stored as the
\* canonical JSON of its object and shown as the structured form
LegacyOrStructured ==
    \A e \in 1..Len(exams) :
        LET row == exams[e]
            shown == view # NotRun /\ view.exam = e
        IN  IF HasQuestions(row.text)
            THEN /\ row.content = Dumps(Loads(row.text).val)
                 /\ shown => view.form = "structured"
            ELSE /\ row.content = row.text
                 /\ shown => view.form = "legacy"
LegacyOrStructuredWitness ==
    /\ view # NotRun
    /\ view.form = "structured"
    /\ exams[view.exam].reply = Returned(TextEssaysOnly)
(***************************************************************************)
(* Claims about concurrent sessions of the portal                          *)
(***************************************************************************)
\* C19: the submissions table never holds two rows of the same exam and student
OneSubmissionPerExamAndStudent ==
    \A i, j \in 1..Len(rows) :
        rows[i].exam_id = rows[j].exam_id /\ rows[i].student_id = rows[j].student_id => i = j

\* C20: once a submission holds non-empty ai_feedback, no step calls the model for it
\* again or changes its ai_feedback or numerical_score
GradingIsWriteOnce ==
    [][\A s \in SubIds :
          Truthy(subs[s].ai_feedback) =>
              /\ subs'[s] = subs[s]
              /\ \A i \in Sessions :
                    inst'[i].pc = "called" /\ inst'[i].sub = s => inst[i].pc = "called"]_vars

(***************************************************************************)
(* Claims about the OAuth callback                                         *)
(***************************************************************************)
\* the callback names a known provider that has credentials, and its state parameter is
\* the state this session stored for that provider
Authorized(c) ==
    /\ c.provider \in Providers
    /\ HasCredentials(oauth.env[c.provider])
    /\ c.before.states[c.provider] # JNull
    /\ c.state = c.before.states[c.provider]

\* logged_in and user of the session are what they were before the callback
LoginUntouched(c) ==
    /\ oauth.session[c.browser].logged_in = c.before.logged_in
    /\ oauth.session[c.browser].user = c.before.user

\* C21: a callback that does not name a known and configured provider with the state
\* stored in the same session for that provider, or whose token exchange, profile fetch
\* or account lookup fails, leaves logged_in and user of the session unchanged; so only
\* a callback with a known, configured provider and the session's own state logs in.
CallbackLogsInOnlyWithOwnState ==
    oauth # NotRun /\ oauth.last.browser # ""
        => ((~Authorized(oauth.last) \/ oauth.last.outcome.k = "raise")
                => LoginUntouched(oauth.last))

\* a callback for a configured provider carries the state of the other session, the
\* token exchange would succeed, and the session stays logged out
ForgedStateRejectedWitness ==
    /\ oauth # NotRun
    /\ oauth.last.browser = "b1"
    /\ oauth.last.provider = "google"
    /\ oauth.last.code = "c"
    /\ oauth.last.state = Token("b2", "google")
    /\ oauth.last.before.states["google"] = Token("b1", "google")
    /\ oauth.session["b2"].states["google"] = Token("b2", "google")
    /\ oauth.last.outcome = KnownAccount
    /\ ~oauth.session["b1"].logged_in

(***************************************************************************)
(* Claims about _normalize_exam_payload                                    *)
(***************************************************************************)
NormReturned == normOut # NotRun /\ normOut.ok
OutMcqs == normOut.val.v.mcqs.v
OutEssays == normOut.val.v.essays.v
\* the mcqs and essays of the payload as the model wrote them (Absent when missing)
InField(key) ==
    IF IsDict(normIn.payload) THEN Get(normIn.payload, key, Absent) ELSE Absent
Field(q, key) == IF IsDict(q) THEN Get(q, key, Absent) ELSE Absent

\* C1: whenever normalize returns, every MCQ of the result has a non-empty question,
\* at least two options that are all non-empty strings, and an integer
\* correct_option_index with 0 <= correct_option_index < len(options).
McqsWellFormed ==
    NormReturned =>
        \A i \in 1..Len(OutMcqs) :
            LET m == OutMcqs[i].v
            IN  /\ m.question.k = "str" /\ m.question.v # <<>>
                /\ m.options.k = "list" /\ Len(m.options.v) >= 2
                /\ \A j \in 1..Len(m.options.v) :
                        m.options.v[j].k = "str" /\ m.options.v[j].v # <<>>
                /\ m.correct_option_index.k = "int"
                /\ 0 <= m.correct_option_index.v
                /\ m.correct_option_index.v < Len(m.options.v)

\* an MCQ was kept although its entry held a blank option and an index out of range
McqsWellFormedWitness ==
    /\ NormReturned /\ Len(OutMcqs) = 1
    /\ InField("mcqs").k = "list" /\ Len(InField("mcqs").v) = 1
    /\ Field(InField("mcqs").v[1], "correct_option_index") = JInt(99)
    /\ Field(InField("mcqs").v[1], "options").k = "list"
    /\ Len(Field(InField("mcqs").v[1], "options").v) > Len(OutMcqs[1].v.options.v)

\* a text int() refuses: something other than digits, a sign and white space, or no digit
NonNumericText(s) ==
    \/ \E i \in 1..Len(s) : s[i] \notin DigitSet \cup Whitespace \cup {"-", "+"}
    \/ \A i \in 1..Len(s) : s[i] \notin DigitSet

\* C2: correct_option_index is coerced to an integer, is 0 when the value cannot be
\* coerced (non-numeric text, null, NaN/Infinity), and is then clamped into
\* [0, len(options)-1] over the kept options: 99 with 4 options becomes 3, a negative
\* index becomes 0. Checked for every payload all of whose MCQ entries are kept.
IndexCoercedAndClamped ==
    (NormReturned /\ InField("mcqs").k = "list" /\ Len(OutMcqs) = Len(InField("mcqs").v)) =>
        \A i \in 1..Len(OutMcqs) :
            LET raw == Field(InField("mcqs").v[i], "correct_option_index")
                n == Len(OutMcqs[i].v.options.v)
                out == OutMcqs[i].v.correct_option_index
            IN  /\ out.k = "int" /\ 0 <= out.v /\ out.v <= n - 1
                /\ (raw.k = "int" /\ raw.v < 0) => out.v = 0
                /\ (raw.k = "int" /\ 0 <= raw.v /\ raw.v < n) => out.v = raw.v
                /\ (raw.k = "int" /\ raw.v >= n) => out.v = n - 1
                /\ (raw = JInt(99) /\ n = 4) => out.v = 3
                /\ raw.k \in {"null", "nan", "inf"} => out.v = 0
                /\ (raw.k = "str" /\ NonNumericText(raw.v)) => out.v = 0

\* index 99 with four kept options came out as 3, and a negative index came out as 0
IndexClampedWitness ==
    /\ NormReturned /\ InField("mcqs").k = "list"
    /\ Len(InField("mcqs").v) = 1 /\ Len(OutMcqs) = 1
    /\ \/ /\ Field(InField("mcqs").v[1], "correct_option_index") = JInt(99)
          /\ Len(OutMcqs[1].v.options.v) = 4
          /\ OutMcqs[1].v.correct_option_index = JInt(3)
       \/ /\ Field(InField("mcqs").v[1], "correct_option_index") = JInt(-1)
          /\ OutMcqs[1].v.correct_option_index = JInt(0)

\* a value the schema allows for a text field: a string, or the key left out
TextOrAbsent(x) == x.k \in {"str", "absent"}
NonEmptyText(x) == x.k = "str" /\ Strip(x.v) # <<>>
\* the number of non-empty options an entry holds; none when options is no list
NonEmptyOptionCount(q) ==
    LET o == Field(q, "options")
    IN  IF o.k = "list" THEN Cardinality({j \in 1..Len(o.v) : NonEmptyText(o.v[j])}) ELSE 0
\* entries whose fields hold text where text is asked for, with any options value
PlainMcq(q) ==
    /\ IsDict(q) /\ TextOrAbsent(Field(q, "question"))
    /\ Field(q, "options").k = "list" =>
            \A j \in 1..Len(Field(q, "options").v) : Field(q, "options").v[j].k = "str"
PlainEssay(q) == IsDict(q) /\ TextOrAbsent(Field(q, "question"))
ValidMcq(q) == NonEmptyText(Field(q, "question")) /\ NonEmptyOptionCount(q) >= 2
ValidEssay(q) == NonEmptyText(Field(q, "question"))
\* the questions of the entries satisfying Valid, in the order of the list
QuestionsOfValid(items, Valid(_)) ==
    LET kept == SelectSeq(items, Valid)
    IN  [i \in 1..Len(kept) |-> Strip(Field(kept[i], "question").v)]
QuestionsOf(items) == [i \in 1..Len(items) |-> items[i].v.question.v]

\* C3: normalize drops exactly the MCQ entries with an empty question or with fewer
\* than 2 non-empty options and the essay entries with an empty question; every
\* other entry is kept, in the order of the model output. Stated for payloads whose
\* mcqs and essays are lists of objects holding text where the schema asks for text.
DropsExactlyInvalidEntries ==
    (/\ normOut # NotRun
     /\ InField("mcqs").k = "list" /\ InField("essays").k = "list"
     /\ \A i \in 1..Len(InField("mcqs").v) : PlainMcq(InField("mcqs").v[i])
     /\ \A i \in 1..Len(InField("essays").v) : PlainEssay(InField("essays").v[i]))
    => /\ normOut.ok
       /\ QuestionsOf(OutMcqs) = QuestionsOfValid(InField("mcqs").v, ValidMcq)
       /\ QuestionsOf(OutEssays) = QuestionsOfValid(InField("essays").v, ValidEssay)

\* C4: for every JSON value extract_json can return, normalize returns an ExamSpec
\* whose mcqs and essays are sequences, possibly empty; a malformed field or entry
\* never makes normalize fail.
NormalizeAlwaysReturnsSequences ==
    normOut # NotRun =>
        /\ normOut.ok
        /\ normOut.val.v.mcqs.k = "list"
        /\ normOut.val.v.essays.k = "list"

\* the entries of the mcqs and essays lists as the loops of normalize meet them
InItems(key) ==
    Iter(IF IsDict(normIn.payload) THEN Get(normIn.payload, key, EmptyList) ELSE EmptyList).val
\* the 1-based positions of the entries a loop keeps
KeptAt(items, Norm(_, _)) ==
    SelectSeq([i \in 1..Len(items) |-> i], LAMBDA i : Norm(items[i], i).act = "keep")
\* the id a kept entry is to get: the string form of its own id, or the placeholder
ExpectedId(q, prefix, n) ==
    IF "id" \in DOMAIN q.v THEN JStr(PyStr(q.v.id)) ELSE JStr(prefix \o NatStr(n))

\* C18: a kept MCQ or essay without an id gets MCQ-<n> or ESSAY-<n>, n being the 1-based
\* position of its entry in the list of the model output; an id of the model output is
\* kept as its string form
IdsPositionalOrKept ==
    NormReturned =>
        LET mi == InItems("mcqs")
            ei == InItems("essays")
            mk == KeptAt(mi, NormMcq)
            ek == KeptAt(ei, NormEssay)
        IN  /\ Len(mk) = Len(OutMcqs) /\ Len(ek) = Len(OutEssays)
            /\ \A j \in 1..Len(mk) :
                    OutMcqs[j].v.id = ExpectedId(mi[mk[j]], <<"M", "C", "Q", "-">>, mk[j])
            /\ \A j \in 1..Len(ek) :
                    OutEssays[j].v.id = ExpectedId(ei[ek[j]], <<"E", "S", "S", "A", "Y", "-">>, ek[j])
\* the first entry was dropped and the MCQ kept from the second one is MCQ-2
IdsPositionalWitness ==
    /\ NormReturned
    /\ Len(InItems("mcqs")) = 2 /\ Len(OutMcqs) = 1
    /\ OutMcqs[1].v.id = JStr(<<"M", "C", "Q", "-", "2">>)

\* C22: normalize is idempotent on object payloads: for every payload that is a JSON
\* object, normalize returns, and normalize applied to its result with the same topic
\* and difficulty returns that result again.
NormalizeIdempotent ==
    (normOut # NotRun /\ IsDict(normIn.payload))
        => /\ normOut.ok
           /\ Normalize(normOut.val, normIn.topic, normIn.difficulty) = normOut

(***************************************************************************)
(* Claims about _extract_json_payload                                      *)
(***************************************************************************)
ExDone == exOut # NotRun
\* the text is a valid JSON object
IsObjectText(s) == Loads(s).ok /\ IsDict(Loads(s).val)

\* C5: for every text that is a valid JSON object, extract_json of that text wrapped
\* in code-fence markers (three backticks, or three backticks and "json" in any
\* letter case, at both ends) returns the same object as extract_json of the bare text.
FencedEqualsBare ==
    (ExDone /\ IsObjectText(exIn.bare) /\ exIn.open \in OpenFences /\ exIn.close \in CloseFences)
        => /\ exOut.bare.ok /\ IsDict(exOut.bare.val)
           /\ exOut.fenced = exOut.bare

\* a non-empty object was extracted from a text fenced with an upper-case JSON marker
FencedEqualsBareWitness ==
    /\ ExDone /\ exIn.bare = TextExam /\ exIn.open = OpenUpperLine /\ exIn.close = CloseLine
    /\ exOut.fenced.ok /\ exOut.fenced.val = Loads(TextExam).val

\* C6: whenever extract_json succeeds its result is a JSON object, never an array or
\* a scalar; when the direct parse of the whole text fails, the result is the object
\* decoded at the leftmost brace at which a JSON decode succeeds.
ExtractYieldsObject ==
    (ExDone /\ exOut.bare.ok) =>
        /\ IsDict(exOut.bare.val)
        /\ ~Loads(Strip(exIn.bare)).ok =>
                \E i \in 1..Len(Strip(exIn.bare)) :
                    /\ Strip(exIn.bare)[i] = "{"
                    /\ RawDecode(From(Strip(exIn.bare), i)) = exOut.bare
                    /\ \A j \in 1..(i - 1) :
                            Strip(exIn.bare)[j] = "{" => ~RawDecode(From(Strip(exIn.bare), j)).ok

(***************************************************************************)
(* Claims about query                                                      *)
(***************************************************************************)
QueryDone == qResult # NotRun

UnparsableReturnsRaw ==
    (/\ QueryDone /\ qCall.pipeline = "rag_pipeline" /\ qCall.mode = "Instructor Mode"
     /\ qCall.reply.ok /\ ~ExtractJson(qCall.reply.val).ok)
        => qResult.text = qCall.reply.val

(***************************************************************************)
(* Claims about the Auto-Grade handler                                     *)
(***************************************************************************)
Graded == gradeLog # NotRun
GradedText == GradeSubmission(gradeLog.reply)

\* the positions where an integer is written directly before /100, and where one is
\* written after Score: (in any letter case) and white space
BeforeSlash100(s) ==
    {i \in 1..Len(s) : s[i] \in DigitSet /\ StartsAt(s, RunEnd(s, i, DigitSet), Slash100)}
AfterScore(s) ==
    {i \in 1..Len(s) :
        /\ StartsAt(LowerAll(s), i, ScoreColon)
        /\ RunEnd(s, RunEnd(s, i + 6, Whitespace), DigitSet) > RunEnd(s, i + 6, Whitespace)}
NumberAt(s, i) == DigitsVal(SubSeq(s, i, RunEnd(s, i, DigitSet) - 1), 0)
HasWrittenScore(s) == BeforeSlash100(s) # {} \/ AfterScore(s) # {}
WrittenScore(s) ==
    IF BeforeSlash100(s) # {} THEN NumberAt(s, Least(BeforeSlash100(s)))
    ELSE NumberAt(s, RunEnd(s, Least(AfterScore(s)) + 6, Whitespace))

\* C7: the extracted score is the integer written directly before /100 when that
\* pattern occurs, otherwise the integer written after Score: (case-insensitive),
\* taken verbatim: "Score: 87/100\nGood work" yields 87 and 150/100 yields 150.
ScoreIsWrittenInteger ==
    Graded =>
        /\ HasWrittenScore(GradedText) => gradeLog.val = WrittenScore(GradedText)
        /\ GradedText = GradeGoodWork => gradeLog.val = 87
        /\ GradedText = GradeOver => gradeLog.val = 150

\* C8: the grading workflow never aborts: for every text grade_submission returns,
\* score extraction yields an integer, 0 when no score is written in the text or the
\* match is no valid integer, and the text is stored verbatim as the feedback of the
\* submission together with that score.
GradingStoresTextAndScore ==
    Graded =>
        LET row == subs[gradeLog.sub]
        IN  /\ gradeLog.reply.ok => row.ai_feedback = JStr(gradeLog.reply.val)
            /\ ~gradeLog.reply.ok => row.ai_feedback = JStr(GradingError \o gradeLog.reply.val)
            /\ row.numerical_score.k = "int"
            /\ row.numerical_score.v = gradeLog.val
            /\ ~HasWrittenScore(row.ai_feedback.v) => row.numerical_score.v = 0
            /\ (SearchSlash100(row.ai_feedback.v).found
                    /\ ~IntOfText(SearchSlash100(row.ai_feedback.v).group).ok)
                => row.numerical_score.v = 0

\* grade_submission failed, and its error string was stored as feedback with score 0
GradingStoresTextAndScoreWitness ==
    /\ Graded /\ ~gradeLog.reply.ok
    /\ subs[gradeLog.sub] =
            [ai_feedback |-> JStr(GradingError \o <<"4", "2", "9">>), numerical_score |-> JInt(0)]
    /\ \E s \in SubIds : s # gradeLog.sub /\ subs[s].ai_feedback = JStr(GradeBackslashD)

====
